---------------------------- MODULE Spec2Model ----------------------------
(***************************************************************************)
(* BlockchainTracer (src/src/tracer.js): the Graph Builder                 *)
(* (traceFromAddress / _traceRecursive / _formatGraph) and the Path Finder *)
(* (tracePath / _findPaths) as state machines over an explicit call stack. *)
(* Every await of _fetchAddressTransactions is a step of its own: the      *)
(* ledger source answers with a list of records or fails.                  *)
(***************************************************************************)
EXTENDS Integers, Sequences, FiniteSets, TLC

VARIABLES
  status,     \* "idle" | "tracing" | "pathing" | "finding" | "returned" | "threw"
  config,     \* this.config (the fan-out caps)
  source,     \* the ledger source: a record profile, or a fixed ledger
  maxDepth,   \* traceFromAddress: const depth;  _findPaths: maxDepth
  direction,  \* traceFromAddress: const direction
  graph,      \* traceFromAddress: const graph = {nodes, edges, startAddress}
  origin,     \* tracePath: fromAddress
  target,     \* tracePath: toAddress
  visited,    \* tracePath: const visited = new Set()
  paths,      \* tracePath: const paths = []
  stack,      \* the recursion: frames of _traceRecursive or of _findPaths
  result,     \* the value the entry point returned
  disc,       \* history: per edge, the address and depth it was appended from
  fetched,    \* history: <<address, record>> for each record a fetch returned
  failed,     \* history: addresses whose fetch failed
  nSliced,    \* history: number of records taken by the slices so far
  nClassified,\* history: number of loop iterations completed so far
  flow,       \* _getAddressFlow: const flow
  txn,        \* traceTransaction: its position, const trace and the first flow
  export,     \* exportGraph: the outcome of the last call
  cli,        \* cli.js traceAddress: its position, options, output file, stdout, exit
  parked,     \* the locals of a second call on the same tracer, while it is suspended
  call,       \* history: the entry point called and its arguments
  nFetch      \* history: number of fetches issued to the ledger source

vars == <<status, config, source, maxDepth, direction, graph, origin, target, visited,
          paths, stack, result, disc, fetched, failed, nSliced, nClassified,
          flow, txn, export, cli, parked, call, nFetch>>

---------------------------------------------------------------------------
(* Bounds of the model *)

\* longest list a fetch answers with in the general ledger profiles
MaxTxs == 2
\* largest options.depth passed to traceFromAddress
MaxDepthOpt == 2
\* most parallel a->b records in a fan ledger
MaxFan == 3
\* largest maxDepth passed to _findPaths in a direct call
MaxFindDepth == 3

(* Program constants *)

DefaultMaxDepth == 5
DefaultMaxTransactionsPerAddress == 10
DefaultMaxTransactionsForPaths == 5
PathMaxDepth == 5
MaxPaths == 10

---------------------------------------------------------------------------
(* Values *)

\* a missing or empty from/to: falsy in `tx.from && ...`
NoAddr == ""

\* stands for an argument whose typeof is not 'string' (a number, null, an object)
NonString == "<non-string>"

\* typeof v === 'string'
IsString(v) == v # NonString

\* an absent argument or option: undefined
Undefined == "<undefined>"

\* no text: nothing was returned, printed or written
NoText == <<>>

\* String.prototype.toLowerCase on the address alphabet of the model
ToLowerCase(s) ==
  CASE s = "A" -> "a"
    [] s = "B" -> "b"
    [] s = "C" -> "c"
    [] s = "D" -> "d"
    [] s = "E" -> "e"
    [] OTHER -> s

\* a JavaScript number: NaN, or a numeric value
NaN == [nan |-> TRUE, num |-> 0]
Num(n) == [nan |-> FALSE, num |-> n]

\* parseFloat on the value strings of the model
ParseFloat(v) ==
  CASE v = "0" -> Num(0)
    [] v = "1" -> Num(1)
    [] v = "2" -> Num(2)
    [] v = "3" -> Num(3)
    [] OTHER -> NaN

\* x || 0 for a number x: NaN and 0 are falsy
OrZero(x) == IF x.nan \/ x.num = 0 THEN 0 ELSE x.num

\* parseInt on the option strings of the model; parseInt(undefined) is NaN
ParseInt(v) ==
  CASE v = "0" -> Num(0)
    [] v = "1" -> Num(1)
    [] v = "2" -> Num(2)
    [] v = "3" -> Num(3)
    [] OTHER -> NaN

\* x || d for a number x
NumOr(x, d) == IF x.nan \/ x.num = 0 THEN d ELSE x.num

\* v || d for an option string v: undefined and '' are falsy
StrOr(v, d) == IF v = Undefined \/ v = "" THEN d ELSE v

\* Array.prototype.slice(0, n)
Slice(s, n) == IF n <= 0 THEN <<>> ELSE SubSeq(s, 1, IF Len(s) < n THEN Len(s) ELSE n)

SeqsUpTo(S, n) == UNION {[1..k -> S] : k \in 0..n}

Tx(f, t, v) == [from |-> f, to |-> t, value |-> v]

Top == stack[Len(stack)]
Pop == SubSeq(stack, 1, Len(stack) - 1)
SetTop(f) == [stack EXCEPT ![Len(stack)] = f]

---------------------------------------------------------------------------
(* The ledger source *)

\* the lists _fetchAddressTransactions(address) may resolve to: any list over the
\* profile's records, or the list a fixed ledger holds for the entity the address
\* names (none for an entity it does not know)
FetchAnswers(address) ==
  IF source.kind = "any"
  THEN SeqsUpTo(source.records, source.maxLen)
  ELSE IF ToLowerCase(address) \in DOMAIN source.txsOf
  THEN {source.txsOf[ToLowerCase(address)]}
  ELSE {<<>>}

\* whether _fetchAddressTransactions(address) may reject, and may resolve: a
\* ledger of kind "fixed" rejects for the entities it lists in `fails` and for no
\* other; the other sources may do either on every fetch
FetchMayFail(address) ==
  IF source.kind = "fixed" THEN ToLowerCase(address) \in source.fails ELSE TRUE

FetchMayReturn(address) ==
  IF source.kind = "fixed" THEN ToLowerCase(address) \notin source.fails ELSE TRUE

---------------------------------------------------------------------------
(* The Graph Builder: traceFromAddress, _traceRecursive, _formatGraph *)

\* mutant: only the type is checked, an empty string passes
ValidAddressTypeOnly(address) == IsString(address)

\* _validateAddress: throws on `!address || typeof address !== 'string'`
ValidAddress(address) == address # NoAddr /\ IsString(address)

\* the guard `currentDepth >= maxDepth` of _traceRecursive
DepthExhausted(currentDepth, max) == currentDepth >= max

\* mutant: the early return on a known address is missing
NodesHasNever(nodes, address) == FALSE

\* graph.nodes.has(address): Map keys compare as the strings they are
NodesHas(nodes, address) == \E i \in 1..Len(nodes) : nodes[i].address = address

\* mutant: the node records the depth of its children
NewNodeOffByOne(address, currentDepth) ==
  [address |-> address,
   depth   |-> currentDepth + 1,
   type    |-> IF currentDepth = 0 THEN "origin" ELSE "intermediary"]

\* the node _traceRecursive inserts
NewNode(address, currentDepth) ==
  [address |-> address,
   depth   |-> currentDepth,
   type    |-> IF currentDepth = 0 THEN "origin" ELSE "intermediary"]

\* mutant: the sender is not compared with the address being expanded
IsOutgoingAnySender(tx, address) == tx.from # NoAddr /\ tx.to # NoAddr

\* tx.from && tx.from.toLowerCase() === address.toLowerCase() && tx.to
IsOutgoing(tx, address) ==
  /\ tx.from # NoAddr
  /\ ToLowerCase(tx.from) = ToLowerCase(address)
  /\ tx.to # NoAddr

\* tx.to && tx.to.toLowerCase() === address.toLowerCase() && tx.from
IsIncoming(tx, address) ==
  /\ tx.to # NoAddr
  /\ ToLowerCase(tx.to) = ToLowerCase(address)
  /\ tx.from # NoAddr

FollowsOut(dir) == dir = "out" \/ dir = "both"
\* mutant: the 'in' branch ignores the direction filter
FollowsInAlways(dir) == TRUE

FollowsIn(dir) == dir = "in" \/ dir = "both"

\* the edge pushed for a record
NewEdge(tx) == [from |-> tx.from, to |-> tx.to, value |-> tx.value]

\* mutant: the recursion stops one level early
MayRecurseEarly(currentDepth, max) == currentDepth + 2 < max

\* the recursion guard `currentDepth + 1 < maxDepth`
MayRecurse(currentDepth, max) == currentDepth + 1 < max

RECURSIVE SumValuesNoFallback(_)
\* mutant: the `|| 0` is missing: an unparsable value poisons the sum (NaN, shown
\* as -1)
SumValuesNoFallback(edges) ==
  IF edges = <<>> THEN 0
  ELSE LET rest == SumValuesNoFallback(SubSeq(edges, 1, Len(edges) - 1))
           v == ParseFloat(edges[Len(edges)].value) IN
       IF rest = -1 \/ v.nan THEN -1 ELSE rest + v.num

RECURSIVE SumValues(_)
\* graph.edges.reduce((sum, edge) => sum + (parseFloat(edge.value) || 0), 0)
SumValues(edges) ==
  IF edges = <<>> THEN 0
  ELSE SumValues(SubSeq(edges, 1, Len(edges) - 1))
         + OrZero(ParseFloat(edges[Len(edges)].value))

\* _formatGraph
FormatGraph(g) ==
  [nodes        |-> g.nodes,
   edges        |-> g.edges,
   startAddress |-> g.startAddress,
   summary      |-> [nodeCount  |-> Len(g.nodes),
                     edgeCount  |-> Len(g.edges),
                     totalValue |-> SumValues(g.edges)]]

TraceFrame(address, currentDepth) ==
  [address |-> address, depth |-> currentDepth, pc |-> "enter", txs |-> <<>>]

NoGraph == [nodes |-> <<>>, edges |-> <<>>, startAddress |-> NoAddr]
NoResult == [kind |-> "none"]
NoCall == [op |-> "none", args |-> <<>>]
NoFlow == [kind |-> "none"]
NoExport == [state |-> "none", format |-> Undefined, text |-> NoText, error |-> NoText]
NoCli == [pc |-> "none", address |-> Undefined, maxDepth |-> 0, direction |-> Undefined,
          format |-> Undefined, output |-> Undefined,
          file |-> NoText, stdout |-> NoText, exitCode |-> 0]
NoParked == [locals |-> [status |-> "none"], interleaved |-> FALSE]
NoTxn == [pc |-> "none", hash |-> NoAddr, transaction |-> NoResult,
          fromAddressFlow |-> NoFlow]

\* Map.prototype.set: a new key is appended in insertion order, an existing key
\* keeps its place and takes the new value
MapSet(nodes, node) ==
  IF \E i \in 1..Len(nodes) : nodes[i].address = node.address
  THEN [i \in 1..Len(nodes) |->
          IF nodes[i].address = node.address THEN node ELSE nodes[i]]
  ELSE Append(nodes, node)

\* traceFromAddress up to the call of _traceRecursive
TraceFromAddress(address, optDepth, optDirection) ==
  /\ status = "idle"
  /\ IF ValidAddress(address)
     THEN /\ status' = "tracing"
          /\ maxDepth' = (IF optDepth # 0 THEN optDepth ELSE DefaultMaxDepth)
          /\ direction' = optDirection
          /\ graph' = [nodes |-> <<>>, edges |-> <<>>, startAddress |-> address]
          /\ stack' = <<TraceFrame(address, 0)>>
     ELSE /\ status' = "threw"
          /\ UNCHANGED <<maxDepth, direction, graph, stack>>
  /\ call' = [op |-> "traceFromAddress", args |-> <<address>>]
  /\ UNCHANGED <<config, source, origin, target, visited, paths, result, disc,
                 fetched, failed, nSliced, nClassified,
                 flow, txn, export, cli, parked, nFetch>>

\* _traceRecursive from its entry to the await of the fetch
TraceEnter ==
  /\ status = "tracing" /\ stack # <<>> /\ Top.pc = "enter"
  /\ IF DepthExhausted(Top.depth, maxDepth) \/ NodesHas(graph.nodes, Top.address)
     THEN /\ stack' = Pop
          /\ UNCHANGED <<graph, nFetch>>
     ELSE /\ graph' = [graph EXCEPT !.nodes = MapSet(@, NewNode(Top.address, Top.depth))]
          /\ stack' = SetTop([Top EXCEPT !.pc = "await"])
          /\ nFetch' = nFetch + 1
  /\ UNCHANGED <<status, config, source, maxDepth, direction, origin, target, visited,
                 paths, result, disc, fetched, failed, nSliced, nClassified,
                 flow, txn, export, cli, parked, call>>

\* the fetch resolves: transactions.slice(0, maxTransactionsPerAddress)
TraceFetchReturn ==
  /\ status = "tracing" /\ stack # <<>> /\ Top.pc = "await"
  /\ FetchMayReturn(Top.address)
  /\ \E transactions \in FetchAnswers(Top.address) :
       LET taken == Slice(transactions, config.maxTransactionsPerAddress) IN
       /\ stack' = SetTop([Top EXCEPT !.pc = "out", !.txs = taken])
       /\ nSliced' = nSliced + Len(taken)
  /\ UNCHANGED <<status, config, source, maxDepth, direction, graph, origin, target,
                 visited, paths, result, disc, fetched, failed, nClassified,
                 flow, txn, export, cli, parked, call, nFetch>>

\* mutant: no try/catch: the rejection propagates out of traceFromAddress
TraceFetchFailFatal ==
  /\ status = "tracing" /\ stack # <<>> /\ Top.pc = "await"
  /\ status' = "threw"
  /\ stack' = <<>>
  /\ failed' = failed \cup {Top.address}
  /\ UNCHANGED <<config, source, maxDepth, direction, graph, origin, target,
                 visited, paths, result, disc, fetched, nSliced, nClassified,
                 flow, txn, export, cli, parked, call, nFetch>>

\* the fetch rejects: the catch block warns and _traceRecursive returns
TraceFetchFail ==
  /\ status = "tracing" /\ stack # <<>> /\ Top.pc = "await"
  /\ FetchMayFail(Top.address)
  /\ stack' = Pop
  /\ failed' = failed \cup {Top.address}
  /\ UNCHANGED <<status, config, source, maxDepth, direction, graph, origin, target,
                 visited, paths, result, disc, fetched, nSliced, nClassified,
                 flow, txn, export, cli, parked, call, nFetch>>

\* one loop iteration, first half: the 'out' / 'both' branch
TraceOut ==
  /\ status = "tracing" /\ stack # <<>> /\ Top.pc = "out" /\ Top.txs # <<>>
  /\ LET tx == Head(Top.txs) IN
     IF FollowsOut(direction) /\ IsOutgoing(tx, Top.address)
     THEN /\ graph' = [graph EXCEPT !.edges = Append(@, NewEdge(tx))]
          /\ disc' = Append(disc, [address |-> Top.address, depth |-> Top.depth])
          /\ stack' = IF MayRecurse(Top.depth, maxDepth)
                      THEN Append(SetTop([Top EXCEPT !.pc = "in"]),
                                  TraceFrame(tx.to, Top.depth + 1))
                      ELSE SetTop([Top EXCEPT !.pc = "in"])
     ELSE /\ stack' = SetTop([Top EXCEPT !.pc = "in"])
          /\ UNCHANGED <<graph, disc>>
  /\ UNCHANGED <<status, config, source, maxDepth, direction, origin, target, visited,
                 paths, result, fetched, failed, nSliced, nClassified,
                 flow, txn, export, cli, parked, call, nFetch>>

\* one loop iteration, second half: the 'in' / 'both' branch
TraceIn ==
  /\ status = "tracing" /\ stack # <<>> /\ Top.pc = "in"
  /\ LET tx == Head(Top.txs)
         next == [Top EXCEPT !.pc = "out", !.txs = Tail(@)] IN
     IF FollowsIn(direction) /\ IsIncoming(tx, Top.address)
     THEN /\ graph' = [graph EXCEPT !.edges = Append(@, NewEdge(tx))]
          /\ disc' = Append(disc, [address |-> Top.address, depth |-> Top.depth])
          /\ stack' = IF MayRecurse(Top.depth, maxDepth)
                      THEN Append(SetTop(next), TraceFrame(tx.from, Top.depth + 1))
                      ELSE SetTop(next)
     ELSE /\ stack' = SetTop(next)
          /\ UNCHANGED <<graph, disc>>
  /\ nClassified' = nClassified + 1
  /\ UNCHANGED <<status, config, source, maxDepth, direction, origin, target, visited,
                 paths, result, fetched, failed, nSliced,
                 flow, txn, export, cli, parked, call, nFetch>>

\* mutant: the exhausted loop asks the ledger for another page instead of
\* returning
TraceLoopEndRefetch ==
  /\ status = "tracing" /\ stack # <<>> /\ Top.pc = "out" /\ Top.txs = <<>>
  /\ stack' = SetTop([Top EXCEPT !.pc = "await"])
  /\ UNCHANGED <<status, config, source, maxDepth, direction, graph, origin, target,
                 visited, paths, result, disc, fetched, failed, nSliced,
                 nClassified,
                 flow, txn, export, cli, parked, call, nFetch>>

\* the for loop is exhausted: _traceRecursive returns
TraceLoopEnd ==
  /\ status = "tracing" /\ stack # <<>> /\ Top.pc = "out" /\ Top.txs = <<>>
  /\ stack' = Pop
  /\ UNCHANGED <<status, config, source, maxDepth, direction, graph, origin, target,
                 visited, paths, result, disc, fetched, failed, nSliced,
                 nClassified,
                 flow, txn, export, cli, parked, call, nFetch>>

\* the outermost _traceRecursive has returned: return this._formatGraph(graph)
TraceReturn ==
  /\ status = "tracing" /\ stack = <<>>
  /\ status' = "returned"
  /\ result' = [kind |-> "graph"] @@ FormatGraph(graph)
  /\ UNCHANGED <<config, source, maxDepth, direction, graph, origin, target, visited,
                 paths, stack, disc, fetched, failed, nSliced, nClassified,
                 flow, txn, export, cli, parked, call, nFetch>>

---------------------------------------------------------------------------
(* Inputs of the Graph Builder *)

Directions == {"in", "out", "both"}
SeedInputs == {"a", NoAddr}

\* ledger profiles: the record sets the ledger source answers from
TraceProfiles ==
  {\* a self-transfer and the cycle a -> b -> a
   {Tx("a", "a", "1"), Tx("a", "b", "1"), Tx("b", "a", "1")},
   \* A, the same entity as a, as a receiver and as a sender
   {Tx("a", "b", "1"), Tx("b", "A", "1"), Tx("A", "a", "1")},
   \* records with a missing endpoint
   {Tx("a", "b", "1"), Tx("a", NoAddr, "1"), Tx(NoAddr, "a", "1")},
   \* values: parsable and not parsable
   {Tx("a", "b", "2"), Tx("a", "b", "x"), Tx("b", "a", "3")}}

TraceSources ==
  {[kind |-> "any", records |-> P, maxLen |-> MaxTxs] : P \in TraceProfiles}

Configs ==
  {[maxTransactionsPerAddress |-> DefaultMaxTransactionsPerAddress,
    maxTransactionsForPaths   |-> DefaultMaxTransactionsForPaths],
   [maxTransactionsPerAddress |-> 1,
    maxTransactionsForPaths   |-> 1]}

\* a new tracer, no call made yet
InitTracer ==
  /\ status = "idle"
  /\ config \in Configs
  /\ maxDepth = 0
  /\ direction = "both"
  /\ graph = NoGraph
  /\ origin = NoAddr
  /\ target = NoAddr
  /\ visited = {}
  /\ paths = <<>>
  /\ stack = <<>>
  /\ result = NoResult
  /\ disc = <<>>
  /\ fetched = {}
  /\ failed = {}
  /\ nSliced = 0
  /\ nClassified = 0
  /\ flow = NoFlow
  /\ txn = NoTxn
  /\ export = NoExport
  /\ cli = NoCli
  /\ call = NoCall
  /\ nFetch = 0

\* a tracer that serves one call at a time
InitCommon == InitTracer /\ parked = NoParked

InitTrace == InitCommon /\ source \in TraceSources

NextTrace ==
  \/ \E address \in SeedInputs, optDepth \in 0..MaxDepthOpt, optDirection \in Directions :
       TraceFromAddress(address, optDepth, optDirection)
  \/ TraceEnter
  \/ TraceFetchReturn
  \/ TraceFetchFail
  \/ TraceOut
  \/ TraceIn
  \/ TraceLoopEnd
  \/ TraceReturn

SpecTrace == InitTrace /\ [][NextTrace]_vars

\* ledger profile: a self-transfer and the cycle a -> b -> a
CycleRecords == {Tx("a", "a", "1"), Tx("a", "b", "1"), Tx("b", "a", "1")}

InitTraceFair ==
  /\ InitCommon
  /\ source = [kind |-> "any", records |-> CycleRecords, maxLen |-> MaxTxs]

\* every fetch returns or fails, and the event loop runs each continuation
SpecTraceFair == InitTraceFair /\ [][NextTrace]_vars /\ WF_vars(NextTrace)

---------------------------------------------------------------------------
(* The Path Finder: tracePath, _findPaths *)

\* a call of _findPaths: its arguments, its position, the list the fetch resolved
\* to (const transactions) and the records the loop has yet to visit
PathFrame(current, path, depth) ==
  [address |-> current, path |-> path, depth |-> depth, pc |-> "enter",
   transactions |-> <<>>, txs |-> <<>>]

\* mutant: the path cap is compared with > instead of >=
PathGuardCapOffByOne(depth, max, found) == depth >= max \/ Len(found) > MaxPaths

\* mutant: the depth guard stops one level early
PathGuardDepthOffByOne(depth, max, found) == depth >= max - 1 \/ Len(found) >= MaxPaths

\* mutant: the guard does not look at the number of paths found
PathGuardDepthOnly(depth, max, found) == depth >= max

\* mutant: the depth guard is compared with > instead of >=
PathGuardDepthLate(depth, max, found) == depth > max \/ Len(found) >= MaxPaths

\* the guard `depth >= maxDepth || paths.length >= 10` of _findPaths
PathGuard(depth, max, found) == depth >= max \/ Len(found) >= MaxPaths

\* current.toLowerCase() === target.toLowerCase()
AtTarget(current, to) == ToLowerCase(current) = ToLowerCase(to)

\* mutant: the revisit check does not fold the case
VisitedHasCaseSensitive(seen, next) == next \in seen

\* visited.has(next.toLowerCase())
VisitedHas(seen, next) == ToLowerCase(next) \in seen

\* tracePath up to the call of _findPaths
TracePath(fromAddress, toAddress) ==
  /\ status = "idle"
  /\ IF ValidAddress(fromAddress) /\ ValidAddress(toAddress)
     THEN /\ status' = "pathing"
          /\ origin' = fromAddress
          /\ target' = toAddress
          /\ maxDepth' = PathMaxDepth
          /\ stack' = <<PathFrame(fromAddress, <<fromAddress>>, 0)>>
     ELSE /\ status' = "threw"
          /\ UNCHANGED <<origin, target, maxDepth, stack>>
  /\ paths' = <<>>
  /\ visited' = {}
  /\ call' = [op |-> "tracePath", args |-> <<fromAddress, toAddress>>]
  /\ UNCHANGED <<config, source, direction, graph, result, disc, fetched,
                 failed, nSliced, nClassified,
                 flow, txn, export, cli, parked, nFetch>>

\* a direct call _findPaths(current, target, [current], new Set(), [], 0, max)
FindPaths(current, toAddress, max) ==
  /\ status = "idle"
  /\ status' = "finding"
  /\ origin' = current
  /\ target' = toAddress
  /\ maxDepth' = max
  /\ stack' = <<PathFrame(current, <<current>>, 0)>>
  /\ paths' = <<>>
  /\ visited' = {}
  /\ call' = [op |-> "_findPaths", args |-> <<current, toAddress>>]
  /\ UNCHANGED <<config, source, direction, graph, result, disc, fetched,
                 failed, nSliced, nClassified,
                 flow, txn, export, cli, parked, nFetch>>

Searching == status = "pathing" \/ status = "finding"

\* _findPaths from its entry to the await of the fetch
PathEnter ==
  /\ Searching /\ stack # <<>> /\ Top.pc = "enter"
  /\ IF PathGuard(Top.depth, maxDepth, paths)
     THEN /\ stack' = Pop
          /\ UNCHANGED <<paths, visited, nFetch>>
     ELSE IF AtTarget(Top.address, target)
     THEN /\ paths' = Append(paths, Top.path)
          /\ stack' = Pop
          /\ UNCHANGED <<visited, nFetch>>
     ELSE /\ visited' = visited \cup {ToLowerCase(Top.address)}
          /\ stack' = SetTop([Top EXCEPT !.pc = "await"])
          /\ nFetch' = nFetch + 1
          /\ UNCHANGED paths
  /\ UNCHANGED <<status, config, source, maxDepth, direction, graph, origin, target,
                 result, disc, fetched, failed, nSliced, nClassified,
                 flow, txn, export, cli, parked, call>>

\* the fetch resolves: transactions.slice(0, maxTransactionsForPaths)
PathFetchReturn ==
  /\ Searching /\ stack # <<>> /\ Top.pc = "await"
  /\ FetchMayReturn(Top.address)
  /\ \E transactions \in FetchAnswers(Top.address) :
       LET taken == Slice(transactions, config.maxTransactionsForPaths) IN
       /\ stack' = SetTop([Top EXCEPT !.pc = "loop", !.transactions = transactions,
                                      !.txs = taken])
       /\ fetched' = fetched \cup
                       {<<Top.address, transactions[i]>> : i \in 1..Len(transactions)}
       /\ nSliced' = nSliced + Len(taken)
  /\ UNCHANGED <<status, config, source, maxDepth, direction, graph, origin, target,
                 visited, paths, result, disc, failed, nClassified,
                 flow, txn, export, cli, parked, call, nFetch>>

\* mutant: the catch block returns, skipping visited.delete
PathFetchFailNoDelete ==
  /\ Searching /\ stack # <<>> /\ Top.pc = "await"
  /\ FetchMayFail(Top.address)
  /\ stack' = Pop
  /\ failed' = failed \cup {Top.address}
  /\ UNCHANGED <<status, config, source, maxDepth, direction, graph, origin, target,
                 visited, paths, result, disc, fetched, nSliced, nClassified,
                 flow, txn, export, cli, parked, call, nFetch>>

\* the fetch rejects: the catch block warns, then visited.delete and return
PathFetchFail ==
  /\ Searching /\ stack # <<>> /\ Top.pc = "await"
  /\ FetchMayFail(Top.address)
  /\ visited' = visited \ {ToLowerCase(Top.address)}
  /\ stack' = Pop
  /\ failed' = failed \cup {Top.address}
  /\ UNCHANGED <<status, config, source, maxDepth, direction, graph, origin, target,
                 paths, result, disc, fetched, nSliced, nClassified,
                 flow, txn, export, cli, parked, call, nFetch>>

\* one loop iteration of _findPaths
PathStep ==
  /\ Searching /\ stack # <<>> /\ Top.pc = "loop" /\ Top.txs # <<>>
  /\ LET tx == Head(Top.txs)
         rest == [Top EXCEPT !.txs = Tail(@)] IN
     stack' = IF IsOutgoing(tx, Top.address) /\ ~VisitedHas(visited, tx.to)
              THEN Append(SetTop(rest),
                          PathFrame(tx.to, Append(Top.path, tx.to), Top.depth + 1))
              ELSE SetTop(rest)
  /\ nClassified' = nClassified + 1
  /\ UNCHANGED <<status, config, source, maxDepth, direction, graph, origin, target,
                 visited, paths, result, disc, fetched, failed, nSliced,
                 flow, txn, export, cli, parked, call, nFetch>>

\* the for loop is exhausted: visited.delete and return
PathLoopEnd ==
  /\ Searching /\ stack # <<>> /\ Top.pc = "loop" /\ Top.txs = <<>>
  /\ visited' = visited \ {ToLowerCase(Top.address)}
  /\ stack' = Pop
  /\ UNCHANGED <<status, config, source, maxDepth, direction, graph, origin, target,
                 paths, result, disc, fetched, failed, nSliced, nClassified,
                 flow, txn, export, cli, parked, call, nFetch>>

\* the outermost _findPaths has returned: tracePath builds its result
PathReturn ==
  /\ status = "pathing" /\ stack = <<>>
  /\ status' = "returned"
  /\ result' = [kind |-> "paths", from |-> origin, to |-> target,
                paths |-> paths, pathCount |-> Len(paths)]
  /\ UNCHANGED <<config, source, maxDepth, direction, graph, origin, target, visited,
                 paths, stack, disc, fetched, failed, nSliced, nClassified,
                 flow, txn, export, cli, parked, call, nFetch>>

\* the direct call has returned: the caller holds the paths array
FindReturn ==
  /\ status = "finding" /\ stack = <<>>
  /\ status' = "returned"
  /\ result' = [kind |-> "found", from |-> origin, to |-> target, paths |-> paths]
  /\ UNCHANGED <<config, source, maxDepth, direction, graph, origin, target, visited,
                 paths, stack, disc, fetched, failed, nSliced, nClassified,
                 flow, txn, export, cli, parked, call, nFetch>>

---------------------------------------------------------------------------
(* Inputs of the Path Finder *)

\* ledger profiles: the record sets the ledgers of a path search are built from
PathProfiles ==
  {\* two routes to the target, one ending in another letter case
   {Tx("a", "b", "1"), Tx("b", "C", "1"), Tx("a", "c", "1")},
   \* a self-transfer, and a sender in another letter case
   {Tx("a", "a", "1"), Tx("a", "b", "1"), Tx("B", "c", "1")},
   \* a cycle back to the start in another letter case
   {Tx("a", "b", "1"), Tx("b", "A", "1"), Tx("a", "c", "1")},
   \* records that are incoming, or lack the receiver
   {Tx("b", "a", "1"), Tx("a", "c", "1"), Tx("a", NoAddr, "1")}}

\* the deterministic ledgers over a profile: one list for a and one for b
ProfileLedgers ==
  {[kind |-> "ledger", txsOf |-> f] :
     f \in UNION {[{"a", "b"} -> SeqsUpTo(P, MaxTxs)] : P \in PathProfiles}}

Permutations2(x, y) == {<<x, y>>, <<y, x>>}

\* the ledgers holding exactly a->b, b->c and a->c: each address's list holds the
\* records it takes part in, in either order
ScenarioLedgers ==
  {[kind |-> "ledger", txsOf |-> [x \in {"a", "b", "c"} |->
       CASE x = "a" -> la [] x = "b" -> lb [] OTHER -> lc]] :
     la \in Permutations2(Tx("a", "b", "1"), Tx("a", "c", "2")),
     lb \in Permutations2(Tx("a", "b", "1"), Tx("b", "c", "3")),
     lc \in Permutations2(Tx("b", "c", "3"), Tx("a", "c", "2"))}

Repeat(tx, n) == [i \in 1..n |-> tx]

\* the ledgers with k parallel a->b and m parallel b->c: k * min(m, cap) routes
FanLedgers ==
  {[kind |-> "ledger", txsOf |-> [x \in {"a", "b", "c"} |->
       CASE x = "a" -> Repeat(Tx("a", "b", "1"), k)
         [] x = "b" -> Repeat(Tx("b", "c", "1"), m)
         [] OTHER -> <<>>]] :
     k \in 2..MaxFan,
     m \in {DefaultMaxTransactionsForPaths - 1, DefaultMaxTransactionsForPaths,
            DefaultMaxTransactionsForPaths + 1}}

\* the ledger of the chain a -> b -> c -> d -> e -> f, and the same chain with a
\* record of each address leading back to the start
ChainLedgers ==
  {[kind |-> "ledger", txsOf |-> [x \in {"a", "b", "c", "d", "e", "f"} |->
       CASE x = "a" -> <<Tx("a", "b", "1")>>
         [] x = "b" -> back \o <<Tx("b", "c", "1")>>
         [] x = "c" -> back \o <<Tx("c", "d", "1")>>
         [] x = "d" -> <<Tx("d", "e", "1")>>
         [] x = "e" -> <<Tx("e", "f", "1")>>
         [] OTHER -> <<>>]] :
     back \in {<<>>, <<Tx("b", "a", "1")>>}}

PathSources == ProfileLedgers \cup ScenarioLedgers \cup FanLedgers \cup ChainLedgers

PathInputs ==
  {<<"a", "c">>, <<"a", "C">>, <<"a", "A">>, <<"a", NoAddr>>, <<NoAddr, "c">>,
   <<"a", "e">>, <<"a", "f">>}

InitPath == InitCommon /\ source \in PathSources

NextPath ==
  \/ \E io \in PathInputs : TracePath(io[1], io[2])
  \/ \E max \in 1..MaxFindDepth : FindPaths("a", "c", max)
  \/ PathEnter
  \/ PathFetchReturn
  \/ PathFetchFail
  \/ PathStep
  \/ PathLoopEnd
  \/ PathReturn
  \/ FindReturn

SpecPath == InitPath /\ [][NextPath]_vars

---------------------------------------------------------------------------
(* The Flow Aggregator: _getAddressFlow, and traceTransaction which calls it *)

\* the flow object _getAddressFlow starts from; it has no netFlow property yet
NewFlow(address) ==
  [address |-> address, incoming |-> <<>>, outgoing |-> <<>>,
   totalIn |-> 0, totalOut |-> 0, transactionCount |-> 0]

\* tx.to && tx.to.toLowerCase() === address.toLowerCase()
FlowIsIncoming(tx, address) ==
  tx.to # NoAddr /\ ToLowerCase(tx.to) = ToLowerCase(address)

\* tx.from && tx.from.toLowerCase() === address.toLowerCase()
FlowIsOutgoing(tx, address) ==
  tx.from # NoAddr /\ ToLowerCase(tx.from) = ToLowerCase(address)

\* the body of the forEach callback
FlowAdd(f, tx) ==
  LET f1 == IF FlowIsIncoming(tx, f.address)
            THEN [f EXCEPT !.incoming = Append(@, tx),
                           !.totalIn = @ + OrZero(ParseFloat(tx.value))]
            ELSE f IN
  IF FlowIsOutgoing(tx, f.address)
  THEN [f1 EXCEPT !.outgoing = Append(@, tx),
                  !.totalOut = @ + OrZero(ParseFloat(tx.value))]
  ELSE f1

RECURSIVE FlowForEach(_, _)
\* transactions.forEach(tx => ...)
FlowForEach(f, transactions) ==
  IF transactions = <<>> THEN f
  ELSE FlowForEach(FlowAdd(f, Head(transactions)), Tail(transactions))

\* the rest of the try block: transactionCount, then the netFlow property is set
FlowFilled(f, transactions) ==
  LET g == [FlowForEach(f, transactions) EXCEPT !.transactionCount = Len(transactions)]
  IN  [netFlow |-> g.totalIn - g.totalOut] @@ g

\* _validateTransactionHash: throws on `!txHash || typeof txHash !== 'string'`
ValidTransactionHash(txHash) == txHash # NoAddr /\ IsString(txHash)

\* the details _fetchTransactionDetails may resolve to: any record of the profile
DetailAnswers == source.records

\* const trace = {hash, from, to, value, ...}
NewTrace(txHash, details) ==
  [hash |-> txHash, from |-> details.from, to |-> details.to, value |-> details.value]

\* a direct call of _getAddressFlow, up to the await of the fetch
GetAddressFlow(address) ==
  /\ status = "idle"
  /\ status' = "flowing"
  /\ flow' = NewFlow(address)
  /\ nFetch' = nFetch + 1
  /\ call' = [op |-> "_getAddressFlow", args |-> <<address>>]
  /\ UNCHANGED <<config, source, maxDepth, direction, graph, origin, target, visited,
                 paths, stack, result, disc, fetched, failed, nSliced, nClassified,
                 txn, export, cli, parked>>

\* `return flow`, and what the caller does with it up to its next await or return
FlowReturns(f) ==
  CASE txn.pc = "from" ->
         \* fromAddressFlow is set; _getAddressFlow(txDetails.to, 2) is called
         /\ txn' = [txn EXCEPT !.pc = "to", !.fromAddressFlow = f]
         /\ flow' = NewFlow(txn.transaction.to)
         /\ nFetch' = nFetch + 1
         /\ UNCHANGED <<status, result>>
    [] txn.pc = "to" ->
         \* toAddressFlow is set; traceTransaction returns
         /\ txn' = [txn EXCEPT !.pc = "done"]
         /\ flow' = f
         /\ status' = "returned"
         /\ result' = [kind |-> "transaction", transaction |-> txn.transaction,
                       fromAddressFlow |-> txn.fromAddressFlow, toAddressFlow |-> f]
         /\ UNCHANGED nFetch
    [] OTHER ->
         \* the direct caller holds the flow
         /\ flow' = f
         /\ status' = "returned"
         /\ result' = [kind |-> "flow", flow |-> f]
         /\ UNCHANGED <<txn, nFetch>>

\* the fetch resolves: the try block runs to its end
FlowFetchReturn ==
  /\ status = "flowing"
  /\ FetchMayReturn(flow.address)
  /\ \E transactions \in FetchAnswers(flow.address) :
       FlowReturns(FlowFilled(flow, transactions))
  /\ UNCHANGED <<config, source, maxDepth, direction, graph, origin, target, visited,
                 paths, stack, disc, fetched, failed, nSliced, nClassified,
                 export, cli, parked, call>>

\* mutant: no try/catch: the rejection propagates to the caller
FlowFetchFailFatal ==
  /\ status = "flowing"
  /\ FetchMayFail(flow.address)
  /\ failed' = failed \cup {flow.address}
  /\ status' = "threw"
  /\ UNCHANGED <<config, source, maxDepth, direction, graph, origin, target, visited,
                 paths, stack, result, disc, fetched, nSliced, nClassified,
                 flow, txn, export, cli, parked, call, nFetch>>

\* the fetch rejects: the catch block warns, the flow is returned as it stands
FlowFetchFail ==
  /\ status = "flowing"
  /\ FetchMayFail(flow.address)
  /\ failed' = failed \cup {flow.address}
  /\ FlowReturns(flow)
  /\ UNCHANGED <<config, source, maxDepth, direction, graph, origin, target, visited,
                 paths, stack, disc, fetched, nSliced, nClassified,
                 export, cli, parked, call>>

\* traceTransaction up to the await of _fetchTransactionDetails
TraceTransaction(txHash) ==
  /\ status = "idle"
  /\ IF ValidTransactionHash(txHash)
     THEN /\ status' = "detailing"
          /\ txn' = [txn EXCEPT !.pc = "details", !.hash = txHash]
          /\ nFetch' = nFetch + 1
     ELSE /\ status' = "threw"
          /\ UNCHANGED <<txn, nFetch>>
  /\ call' = [op |-> "traceTransaction", args |-> <<txHash>>]
  /\ UNCHANGED <<config, source, maxDepth, direction, graph, origin, target, visited,
                 paths, stack, result, disc, fetched, failed, nSliced, nClassified,
                 flow, export, cli, parked>>

\* the details resolve: trace is built and _getAddressFlow(txDetails.from, 2) called
TxDetailsReturn ==
  /\ status = "detailing"
  /\ \E details \in DetailAnswers :
       /\ txn' = [txn EXCEPT !.pc = "from", !.transaction = NewTrace(txn.hash, details)]
       /\ flow' = NewFlow(details.from)
  /\ status' = "flowing"
  /\ nFetch' = nFetch + 1
  /\ UNCHANGED <<config, source, maxDepth, direction, graph, origin, target, visited,
                 paths, stack, result, disc, fetched, failed, nSliced, nClassified,
                 export, cli, parked, call>>

\* the details reject: traceTransaction has no try/catch, its promise rejects
TxDetailsFail ==
  /\ status = "detailing"
  /\ status' = "threw"
  /\ UNCHANGED <<config, source, maxDepth, direction, graph, origin, target, visited,
                 paths, stack, result, disc, fetched, failed, nSliced, nClassified,
                 flow, txn, export, cli, parked, call, nFetch>>

FlowInputs == {"a", "A", "b"}
HashInputs == {"h", NoAddr, NonString}

InitFlow == InitCommon /\ source \in TraceSources

NextFlow ==
  \/ \E address \in FlowInputs : GetAddressFlow(address)
  \/ \E txHash \in HashInputs : TraceTransaction(txHash)
  \/ TxDetailsReturn
  \/ TxDetailsFail
  \/ FlowFetchReturn
  \/ FlowFetchFail

SpecFlow == InitFlow /\ [][NextFlow]_vars

---------------------------------------------------------------------------
(* The Exporter (exportGraph) and the CLI trace command (cli.js traceAddress) *)
(* A text is a sequence of lines, a line a tuple of the tokens it is built of. *)

\* JSON.stringify(graph, null, 2): one document holding the value
JsonStringify(g) == << <<"json", g>> >>

\* node.address.substring(0, 10): the addresses of the model are shorter than 10
Substring10(address) == address

\* _exportToDot
ExportToDot(g) ==
  << <<"digraph TransactionFlow {">>, <<"rankdir=LR;">>,
     <<"node [shape=box, style=rounded];">>, <<>> >>
    \o [i \in 1..Len(g.nodes) |->
          <<"node", g.nodes[i].address, Substring10(g.nodes[i].address), "...",
            IF g.nodes[i].type = "origin" THEN "lightblue" ELSE "lightgray">>]
    \o << <<>> >>
    \o [i \in 1..Len(g.edges) |->
          <<"edge", g.edges[i].from, g.edges[i].to, g.edges[i].value>>]
    \o << <<"}">> >>

\* `${edge.hash}` / `${edge.timestamp}`: a property the edge lacks prints undefined
EdgeField(edge, name) == IF name \in DOMAIN edge THEN edge[name] ELSE Undefined

\* _exportToCsv
ExportToCsv(g) ==
  << <<"From", "To", "Value", "Hash", "Timestamp">> >>
    \o [i \in 1..Len(g.edges) |->
          <<g.edges[i].from, g.edges[i].to, g.edges[i].value,
            EdgeField(g.edges[i], "hash"), EdgeField(g.edges[i], "timestamp")>>]

\* mutant: the default branch falls back to JSON
ExportGraphFallback(g, format) ==
  LET f == IF format = Undefined THEN "json" ELSE format IN
  CASE f = "dot" ->
         [state |-> "returned", format |-> f, text |-> ExportToDot(g), error |-> NoText]
    [] f = "csv" ->
         [state |-> "returned", format |-> f, text |-> ExportToCsv(g), error |-> NoText]
    [] OTHER ->
         [state |-> "returned", format |-> f, text |-> JsonStringify(g), error |-> NoText]

\* exportGraph(graph, format = 'json'): the text returned, or the error thrown
ExportGraph(g, format) ==
  LET f == IF format = Undefined THEN "json" ELSE format IN
  CASE f = "json" ->
         [state |-> "returned", format |-> f, text |-> JsonStringify(g), error |-> NoText]
    [] f = "dot" ->
         [state |-> "returned", format |-> f, text |-> ExportToDot(g), error |-> NoText]
    [] f = "csv" ->
         [state |-> "returned", format |-> f, text |-> ExportToCsv(g), error |-> NoText]
    [] OTHER ->
         [state |-> "threw", format |-> f, text |-> NoText,
          error |-> <<"Unsupported format: ", f>>]

\* a direct call exportGraph(result, format) on a graph traceFromAddress returned
ExportGraphCall(format) ==
  /\ cli.pc = "none"
  /\ status = "returned" /\ result.kind = "graph"
  /\ export.state = "none"
  /\ export' = ExportGraph(result, format)
  /\ UNCHANGED <<status, config, source, maxDepth, direction, graph, origin, target,
                 visited, paths, stack, result, disc, fetched, failed, nSliced,
                 nClassified, flow, txn, cli, parked, call, nFetch>>

\* parseInt(options.depth) || 5
CliDefaultMaxDepth == 5

\* traceAddress up to the construction of the tracer: args[1], parseOptions, config
CliTraceAddress(address, options) ==
  /\ cli.pc = "none" /\ status = "idle"
  /\ cli' = IF address = Undefined
            THEN [cli EXCEPT !.pc = "exited", !.exitCode = 1]
            ELSE [cli EXCEPT !.pc = "parsed",
                             !.address = address,
                             !.maxDepth = NumOr(ParseInt(options.depth), CliDefaultMaxDepth),
                             !.direction = StrOr(options.direction, "both"),
                             !.format = options.format,
                             !.output = options.output]
  /\ UNCHANGED <<status, config, source, maxDepth, direction, graph, origin, target,
                 visited, paths, stack, result, disc, fetched, failed, nSliced,
                 nClassified, flow, txn, export, parked, call, nFetch>>

\* tracer.traceFromAddress(address, {depth: config.maxDepth, direction})
CliCall ==
  /\ cli.pc = "parsed"
  /\ TraceFromAddress(cli.address, cli.maxDepth, cli.direction)

\* mutant: the raw result is written to the output file before the format is
\* looked at
CliExportWriteFirst ==
  /\ cli.pc = "parsed"
  /\ status = "returned" /\ result.kind = "graph"
  /\ LET out == ExportGraph(result, StrOr(cli.format, "json"))
         written == IF StrOr(cli.output, Undefined) # Undefined
                    THEN [cli EXCEPT !.file = JsonStringify(result)] ELSE cli IN
     /\ export' = out
     /\ cli' = IF out.state = "threw"
               THEN [written EXCEPT !.pc = "exited", !.exitCode = 1]
               ELSE [written EXCEPT !.pc = "done", !.stdout = out.text]
  /\ UNCHANGED <<status, config, source, maxDepth, direction, graph, origin, target,
                 visited, paths, stack, result, disc, fetched, failed, nSliced,
                 nClassified, flow, txn, parked, call, nFetch>>

\* the trace has returned: exportGraph(result, options.format || 'json'), then
\* console.log(output), or the await of writeFile, or the catch block
CliExport ==
  /\ cli.pc = "parsed"
  /\ status = "returned" /\ result.kind = "graph"
  /\ LET out == ExportGraph(result, StrOr(cli.format, "json")) IN
     /\ export' = out
     /\ cli' = IF out.state = "threw"
               THEN [cli EXCEPT !.pc = "exited", !.exitCode = 1]
               ELSE IF StrOr(cli.output, Undefined) # Undefined
               THEN [cli EXCEPT !.pc = "writing"]
               ELSE [cli EXCEPT !.pc = "done", !.stdout = out.text]
  /\ UNCHANGED <<status, config, source, maxDepth, direction, graph, origin, target,
                 visited, paths, stack, result, disc, fetched, failed, nSliced,
                 nClassified, flow, txn, parked, call, nFetch>>

\* writeFile resolves: the file holds the output
CliWriteFile ==
  /\ cli.pc = "writing"
  /\ cli' = [cli EXCEPT !.pc = "done", !.file = export.text]
  /\ UNCHANGED <<status, config, source, maxDepth, direction, graph, origin, target,
                 visited, paths, stack, result, disc, fetched, failed, nSliced,
                 nClassified, flow, txn, export, parked, call, nFetch>>

\* writeFile rejects: the catch block prints the error and process.exit(1)
CliWriteFileFail ==
  /\ cli.pc = "writing"
  /\ cli' = [cli EXCEPT !.pc = "exited", !.exitCode = 1]
  /\ UNCHANGED <<status, config, source, maxDepth, direction, graph, origin, target,
                 visited, paths, stack, result, disc, fetched, failed, nSliced,
                 nClassified, flow, txn, export, parked, call, nFetch>>

FormatTokens == {"json", "dot", "csv", "xml", "JSON", ""}

CliOptions ==
  [depth     : {Undefined, "2", "0"},
   direction : {Undefined, "out"},
   format    : {Undefined} \cup (FormatTokens \ {""}),
   output    : {Undefined, "out.txt"}]

\* the ledger of the CLI runs: a cycle a -> b -> a and a record incoming to a
CliLedger ==
  [kind |-> "ledger",
   txsOf |-> [x \in {"a", "b"} |->
                IF x = "a" THEN <<Tx("a", "b", "1"), Tx("c", "a", "x")>>
                ELSE <<Tx("b", "a", "2")>>]]

\* new BlockchainTracer({network, maxDepth}): the caps keep their defaults
InitCli ==
  /\ InitCommon
  /\ config = [maxTransactionsPerAddress |-> DefaultMaxTransactionsPerAddress,
               maxTransactionsForPaths   |-> DefaultMaxTransactionsForPaths]
  /\ source = CliLedger

NextCli ==
  \/ \E address \in {"a", Undefined}, options \in CliOptions :
       CliTraceAddress(address, options)
  \/ CliCall
  \/ \E optDirection \in Directions :
       cli.pc = "none" /\ TraceFromAddress("a", 0, optDirection)
  \/ TraceEnter
  \/ TraceFetchReturn
  \/ TraceFetchFail
  \/ TraceOut
  \/ TraceIn
  \/ TraceLoopEnd
  \/ TraceReturn
  \/ CliExport
  \/ CliWriteFile
  \/ CliWriteFileFail
  \/ \E format \in {Undefined} \cup FormatTokens : ExportGraphCall(format)

SpecCli == InitCli /\ [][NextCli]_vars

---------------------------------------------------------------------------
(* The three entry points side by side, with arguments that fail validation *)

ArgumentInputs == {"a", "b", NoAddr, NonString}

InitEntry ==
  /\ InitCommon
  /\ source = [kind |-> "any", records |-> CycleRecords, maxLen |-> MaxTxs]

NextEntry ==
  \/ \E address \in ArgumentInputs, optDepth \in {0, 1}, optDirection \in Directions :
       TraceFromAddress(address, optDepth, optDirection)
  \/ \E fromAddress \in ArgumentInputs \ {"b"}, toAddress \in ArgumentInputs \ {"a"} :
       TracePath(fromAddress, toAddress)
  \/ \E txHash \in HashInputs : TraceTransaction(txHash)
  \/ TraceEnter \/ TraceFetchReturn \/ TraceFetchFail
  \/ TraceOut \/ TraceIn \/ TraceLoopEnd \/ TraceReturn
  \/ PathEnter \/ PathFetchReturn \/ PathFetchFail
  \/ PathStep \/ PathLoopEnd \/ PathReturn
  \/ TxDetailsReturn \/ TxDetailsFail \/ FlowFetchReturn \/ FlowFetchFail

SpecEntry == InitEntry /\ [][NextEntry]_vars

---------------------------------------------------------------------------
(* Two traversal calls on one tracer, interleaved at their awaits.  The        *)
(* variables hold the locals of the call that is running; `parked` holds those *)
(* of the other call, which has not begun, is suspended at an await, or is     *)
(* over.  this.config is the only state of the instance, and it is only read.  *)

\* the locals of the running call
Locals ==
  [status |-> status, maxDepth |-> maxDepth, direction |-> direction, graph |-> graph,
   origin |-> origin, target |-> target, visited |-> visited, paths |-> paths,
   stack |-> stack, result |-> result, call |-> call]

\* the locals of a call that has not begun
IdleLocals ==
  [status |-> "idle", maxDepth |-> 0, direction |-> "both", graph |-> NoGraph,
   origin |-> NoAddr, target |-> NoAddr, visited |-> {}, paths |-> <<>>,
   stack |-> <<>>, result |-> NoResult, call |-> NoCall]

InFlight(st) == st = "tracing" \/ st = "pathing"

\* mutant: the revisit set is a field of the tracer, so the resumed call finds
\* the set as the other call left it
InstanceVisited(locals) == visited

\* `const visited = new Set()` is a local of tracePath: the resumed call finds
\* its own set
LocalVisited(locals) == locals.visited

\* the running call is suspended at an await, or is over, and the event loop
\* runs the other call: it begins, or its fetch has settled
Switch ==
  /\ parked.locals.status \notin {"none", "returned", "threw"}
  /\ IF InFlight(status) THEN stack # <<>> /\ Top.pc = "await"
     ELSE status \in {"returned", "threw"}
  /\ status' = parked.locals.status
  /\ maxDepth' = parked.locals.maxDepth
  /\ direction' = parked.locals.direction
  /\ graph' = parked.locals.graph
  /\ origin' = parked.locals.origin
  /\ target' = parked.locals.target
  /\ visited' = LocalVisited(parked.locals)
  /\ paths' = parked.locals.paths
  /\ stack' = parked.locals.stack
  /\ result' = parked.locals.result
  /\ call' = parked.locals.call
  /\ parked' = [locals |-> Locals,
                interleaved |-> parked.interleaved
                                  \/ (InFlight(status) /\ InFlight(parked.locals.status))]
  /\ UNCHANGED <<config, source, disc, fetched, failed, nSliced, nClassified,
                 flow, txn, export, cli, nFetch>>

\* the deterministic ledgers of the interleaved runs: b and c have records that
\* lead back, and the fetch of some addresses always rejects
ConcLedgers ==
  {[kind |-> "fixed",
    txsOf |-> [x \in {"a", "b", "c"} |->
                 CASE x = "a" -> <<Tx("a", "b", "1"), Tx("a", "c", "2")>>
                   [] x = "b" -> <<Tx("b", "a", "1"), Tx("b", "c", "3")>>
                   [] OTHER -> <<Tx("c", "a", "1")>>],
    fails |-> F] : F \in {{}, {"b"}, {"c"}}}

InitConc ==
  /\ InitTracer
  /\ source \in ConcLedgers
  /\ parked = [locals |-> IdleLocals, interleaved |-> FALSE]

NextConc ==
  \/ \E optDirection \in {"out", "both"} : TraceFromAddress("a", 0, optDirection)
  \/ \E fromAddress \in {"a", "b"} : TracePath(fromAddress, "c")
  \/ Switch
  \/ TraceEnter \/ TraceFetchReturn \/ TraceFetchFail
  \/ TraceOut \/ TraceIn \/ TraceLoopEnd \/ TraceReturn
  \/ PathEnter \/ PathFetchReturn \/ PathFetchFail
  \/ PathStep \/ PathLoopEnd \/ PathReturn

SpecConc == InitConc /\ [][NextConc]_vars

---------------------------------------------------------------------------
(* Properties of the Graph Builder (checked under SpecTrace) *)

Returned == status = "returned"
GraphReturned == Returned /\ result.kind = "graph"
CaseEqual(x, y) == ToLowerCase(x) = ToLowerCase(y)

\* C1: every node of the returned graph has 0 <= depth < maxDepth; the seed is a
\* node with depth 0 and type 'origin'; no other node has depth 0 or type 'origin'.
C1_DepthBound ==
  GraphReturned =>
    /\ \A i \in 1..Len(result.nodes) :
         /\ 0 <= result.nodes[i].depth /\ result.nodes[i].depth < maxDepth
         /\ (result.nodes[i].depth = 0 \/ result.nodes[i].type = "origin")
              => result.nodes[i].address = result.startAddress
    /\ \E i \in 1..Len(result.nodes) :
         /\ result.nodes[i].address = result.startAddress
         /\ result.nodes[i].depth = 0
         /\ result.nodes[i].type = "origin"

\* a graph whose deepest node sits at maxDepth - 1 >= 1 and which holds an edge
\* appended from that depth (its far endpoint was not visited)
C1_Witness ==
  /\ GraphReturned
  /\ \E i \in 1..Len(result.nodes) :
       result.nodes[i].depth = maxDepth - 1 /\ result.nodes[i].depth >= 1
  /\ \E j \in 1..Len(disc) : disc[j].depth = maxDepth - 1

\* C2: no two nodes of the graph have addresses that are equal after lower-casing.
C2_NoDuplicateNodes ==
  \A i, j \in 1..Len(graph.nodes) :
    i # j => ~CaseEqual(graph.nodes[i].address, graph.nodes[j].address)

\* C5: with direction 'out' every edge's 'from' case-equals the address it was
\* appended from, which is a node; with direction 'in' every edge's 'to' does.
C5_DirectionFilter ==
  status \in {"tracing", "returned"} =>
    /\ Len(disc) = Len(graph.edges)
    /\ \A i \in 1..Len(graph.edges) :
         /\ NodesHas(graph.nodes, disc[i].address)
         /\ direction = "out" => CaseEqual(graph.edges[i].from, disc[i].address)
         /\ direction = "in" => CaseEqual(graph.edges[i].to, disc[i].address)

\* direction 'out', an edge already appended, and the loop is at the 'in' branch of
\* a record that is only incoming to the address being expanded
C5_Witness ==
  /\ status = "tracing" /\ direction = "out" /\ stack # <<>>
  /\ Top.pc = "in"
  /\ IsIncoming(Head(Top.txs), Top.address)
  /\ ~IsOutgoing(Head(Top.txs), Top.address)
  /\ Len(graph.edges) >= 1

\* C6: every started traceFromAddress reaches its return, whatever the ledger
\* answers (cycles and self-transfers included), given that every fetch returns
\* or fails.
C6_Terminates == (status = "tracing") ~> (status = "returned")

\* a graph was returned from a ledger with a self-transfer and a cycle a->b->a
C6_Witness ==
  /\ GraphReturned
  /\ \E i, j, k \in 1..Len(result.edges) :
       /\ result.edges[i].from = "a" /\ result.edges[i].to = "a"
       /\ result.edges[j].from = "a" /\ result.edges[j].to = "b"
       /\ result.edges[k].from = "b" /\ CaseEqual(result.edges[k].to, "a")
       /\ disc[k].address = "b"

C7_Contained ==
  /\ failed # {} => status \in {"tracing", "returned"}
  /\ \A f \in failed : NodesHas(graph.nodes, f)
  /\ \A i \in 1..Len(disc) : disc[i].address \notin failed
  /\ Returned => nClassified = nSliced /\ result.kind = "graph"

\* what an empty answer leaves once its (empty) loop has ended: the call has
\* returned to its caller, whose remaining records are untouched
C7_AsIfEmpty ==
  failed' # failed =>
    /\ stack' = SubSeq(stack, 1, Len(stack) - 1)
    /\ <<status, graph, disc, nSliced, nClassified>>' =
         <<status, graph, disc, nSliced, nClassified>>

\* C7: a fetch failure is never fatal: the build goes on to return a graph, the
\* failing address stays a node and no edge was appended from it, at the return
\* every record taken by a slice has been classified, and the failing step leaves
\* the traversal where an empty answer would have left it.
C7_FetchFailureContained == []C7_Contained /\ [][C7_AsIfEmpty]_vars

\* the fetch of a child failed and a later sibling record of its parent was
\* classified into an edge
C7_Witness ==
  /\ GraphReturned
  /\ \E i, j \in 1..Len(result.edges) :
       /\ i < j
       /\ disc[i] = disc[j]
       /\ result.edges[i].to \in failed
       /\ result.edges[i].to # result.startAddress
       /\ result.edges[j].to \notin failed

\* the value of an edge as the summary is to count it: unparsable counts 0
ValueOf(v) == CASE v = "1" -> 1 [] v = "2" -> 2 [] v = "3" -> 3 [] OTHER -> 0

RECURSIVE TotalOf(_, _)
TotalOf(edges, i) == IF i = 0 THEN 0 ELSE ValueOf(edges[i].value) + TotalOf(edges, i - 1)

\* C8: summary.nodeCount is the number of nodes, summary.edgeCount the number of
\* edges, summary.totalValue the sum of the edge values, unparsable ones as 0.
C8_SummaryConsistent ==
  GraphReturned =>
    /\ result.summary.nodeCount = Len(result.nodes)
    /\ result.summary.edgeCount = Len(result.edges)
    /\ result.summary.totalValue = TotalOf(result.edges, Len(result.edges))

\* a graph with an unparsable edge value beside parsable, non-zero ones
C8_Witness ==
  /\ GraphReturned
  /\ \E i, j \in 1..Len(result.edges) :
       result.edges[i].value = "x" /\ result.edges[j].value \in {"2", "3"}
  /\ result.summary.totalValue >= 2

---------------------------------------------------------------------------
(* Properties of the Path Finder (checked under SpecPath) *)

PathsReturned == Returned /\ result.kind \in {"paths", "found"}

\* C3: no two positions of a recorded path hold case-equal addresses.
C3_PathsSimple ==
  \A k \in 1..Len(paths) :
    \A i, j \in 1..Len(paths[k]) :
      i # j => ~CaseEqual(paths[k][i], paths[k][j])

\* a path was returned by a search that met a record of b leading back to the
\* start, in another letter case
C3_Witness ==
  /\ PathsReturned
  /\ Len(result.paths) >= 1
  /\ <<"b", Tx("b", "A", "1")>> \in fetched
  /\ nClassified = nSliced

\* C4: the number of recorded paths never exceeds 10, and pathCount is the
\* length of the returned paths list.
C4_PathCap ==
  /\ Len(paths) <= MaxPaths
  /\ (Returned /\ result.kind = "paths") =>
       result.pathCount = Len(result.paths) /\ result.paths = paths

\* the cap is reached and one more call arrives at the target
C4_Witness ==
  /\ status = "pathing" /\ stack # <<>>
  /\ Top.pc = "enter"
  /\ AtTarget(Top.address, target)
  /\ Len(paths) = MaxPaths

\* C9: every returned path starts with 'from', ends with an address case-equal
\* to 'to' that occurs only in the last position, and each consecutive pair
\* (x, y) is joined by a record x -> y the ledger returned for x.
C9_PathsConnected ==
  PathsReturned =>
    \A k \in 1..Len(result.paths) :
      LET p == result.paths[k] IN
      /\ Len(p) >= 1
      /\ p[1] = result.from
      /\ CaseEqual(p[Len(p)], result.to)
      /\ \A i \in 1..(Len(p) - 1) :
           /\ ~CaseEqual(p[i], result.to)
           /\ \E f \in fetched :
                /\ f[1] = p[i]
                /\ f[2].from # NoAddr
                /\ CaseEqual(f[2].from, p[i])
                /\ f[2].to = p[i + 1]

\* a returned path of three addresses whose target differs in case from 'to'
C9_Witness ==
  /\ PathsReturned
  /\ \E k \in 1..Len(result.paths) :
       Len(result.paths[k]) = 3 /\ result.paths[k][3] # result.to

\* the ledger holds exactly a->b, b->c, a->c; default fan-out cap; no fetch failed
Scenario ==
  /\ source \in ScenarioLedgers
  /\ config.maxTransactionsForPaths = DefaultMaxTransactionsForPaths
  /\ failed = {}
  /\ Returned /\ result.kind = "found"
  /\ result.from = "a" /\ result.to = "c" /\ maxDepth = 3

\* C10: with the ledger a->b, b->c, a->c a search from a to c with maxDepth 3
\* returns exactly [a,c] and [a,b,c], the path through the record the ledger
\* returns first for a coming first.
C10_Scenario ==
  Scenario =>
    result.paths =
      (IF source.txsOf["a"][1].to = "c"
       THEN << <<"a", "c">>, <<"a", "b", "c">> >>
       ELSE << <<"a", "b", "c">>, <<"a", "c">> >>)

\* the scenario has run with a's records returned as a->c, a->b
C10_Witness ==
  /\ Scenario
  /\ source.txsOf["a"] = <<Tx("a", "c", "2"), Tx("a", "b", "1")>>
  /\ Len(result.paths) = 2

\* C11: every recorded path holds at most maxDepth addresses (5 in tracePath),
\* whatever the ledger answers.
C11_PathLengthBound ==
  /\ \A k \in 1..Len(paths) : Len(paths[k]) <= maxDepth
  /\ PathsReturned => \A k \in 1..Len(result.paths) : Len(result.paths[k]) <= maxDepth

\* tracePath returned a path of exactly 5 addresses
C11_Witness ==
  /\ Returned /\ result.kind = "paths"
  /\ \E k \in 1..Len(result.paths) : Len(result.paths[k]) = PathMaxDepth

---------------------------------------------------------------------------
(* Properties of the Flow Aggregator (checked under SpecFlow) *)

\* the summary of an address none of whose records was seen
Zeroed(f, address) ==
  /\ f.address = address
  /\ f.incoming = <<>> /\ f.outgoing = <<>>
  /\ f.totalIn = 0 /\ f.totalOut = 0
  /\ f.transactionCount = 0

\* the flow summary the last completed _getAddressFlow returned
LastFlow ==
  IF status = "returned" /\ result.kind = "flow" THEN result.flow
  ELSE IF status = "returned" /\ result.kind = "transaction" THEN result.toAddressFlow
  ELSE txn.fromAddressFlow

C12_FailStep ==
  (status = "flowing" /\ failed' # failed) =>
    /\ status' \in {"flowing", "returned"}
    /\ Zeroed(LastFlow', flow.address)

\* C12: when the fetch of a flow summary request fails, no error propagates: the
\* request returns a summary with empty incoming and outgoing lists, totalIn 0,
\* totalOut 0 and transactionCount 0.
C12_FlowFailureZeroed == [][C12_FailStep]_vars

\* traceTransaction returned although the fetch for the sender's flow failed, and
\* the receiver's flow has records
C12_Witness ==
  /\ Returned /\ result.kind = "transaction"
  /\ Zeroed(result.fromAddressFlow, result.transaction.from)
  /\ result.fromAddressFlow.address \in failed
  /\ result.toAddressFlow.transactionCount > 0

\* the flow summaries returned so far
ReturnedFlows ==
  (IF Returned /\ result.kind = "flow" THEN {result.flow} ELSE {})
    \cup (IF Returned /\ result.kind = "transaction"
          THEN {result.fromAddressFlow, result.toAddressFlow} ELSE {})
    \cup (IF txn.pc = "to" THEN {txn.fromAddressFlow} ELSE {})

\* C13: every flow summary _getAddressFlow returns, whether its fetch succeeded
\* or failed, carries a netFlow that equals totalIn - totalOut.
C13_NetFlowAlways ==
  \A f \in ReturnedFlows :
    "netFlow" \in DOMAIN f /\ f.netFlow = f.totalIn - f.totalOut

---------------------------------------------------------------------------
(* Properties of the Exporter and of the CLI (checked under SpecCli) *)

SupportedFormats == {"json", "dot", "csv"}

C14_Rejected ==
  (export.state # "none" /\ export.format \notin SupportedFormats) =>
    /\ export.state = "threw"
    /\ export.text = NoText
    /\ export.error = <<"Unsupported format: ", export.format>>

C14_GraphKept == export' # export => (result' = result /\ graph' = graph)

\* C14: exportGraph with a format token other than 'json', 'dot' and 'csv' fails
\* with an 'Unsupported format' error, returns no output text, and leaves the
\* graph passed to it unchanged.
C14_UnsupportedFormat == []C14_Rejected /\ [][C14_GraphKept]_vars

\* a direct call with the token 'JSON' threw, on a graph that has edges
C14_Witness ==
  /\ cli.pc = "none"
  /\ export.state = "threw" /\ export.format = "JSON"
  /\ GraphReturned /\ Len(result.edges) >= 1

\* C15: in the CLI trace command the format is validated before any file write:
\* with an unsupported format nothing is written and the process exits non-zero;
\* the file is written only after exportGraph has returned, and holds its text.
C15_ValidateBeforeWrite ==
  /\ cli.pc = "writing" => export.state = "returned"
  /\ cli.file # NoText => (export.state = "returned" /\ cli.file = export.text)
  /\ (cli.pc # "none" /\ export.state = "threw") =>
       /\ cli.file = NoText /\ cli.stdout = NoText
       /\ cli.pc = "exited" /\ cli.exitCode = 1

\* the command was given an output file and the format 'xml': it has exited
C15_Witness ==
  /\ cli.pc = "exited" /\ cli.output = "out.txt" /\ cli.format = "xml"
  /\ export.state = "threw"

---------------------------------------------------------------------------
(* Properties of the entry points (checked under SpecEntry) *)

Rejectable == {NoAddr, NonString}

\* the last call was given an empty or non-string address or hash
InvalidCall ==
  /\ call.op \in {"traceFromAddress", "tracePath", "traceTransaction"}
  /\ \E i \in 1..Len(call.args) : call.args[i] \in Rejectable

\* C16: an empty or non-string address passed to traceFromAddress or tracePath
\* (either argument), or such a hash passed to traceTransaction, fails before
\* any fetch is issued and before any graph or path state is created.
C16_FailFast ==
  InvalidCall =>
    /\ status = "threw"
    /\ nFetch = 0 /\ fetched = {} /\ failed = {}
    /\ graph = NoGraph /\ stack = <<>>
    /\ paths = <<>> /\ visited = {}
    /\ txn = NoTxn /\ flow = NoFlow
    /\ result = NoResult

\* tracePath threw on its second argument, the first being a valid address
C16_Witness ==
  /\ status = "threw"
  /\ call.op = "tracePath"
  /\ call.args[1] = "a" /\ call.args[2] \in Rejectable

---------------------------------------------------------------------------
(* Properties of interleaved calls (checked under SpecConc) *)

\* what a deterministic ledger answers for an address
LedgerList(address) == CHOOSE transactions \in FetchAnswers(address) : TRUE

RECURSIVE AloneTrace(_, _, _, _, _)
RECURSIVE AloneTraceLoop(_, _, _, _, _, _)
\* the graph _traceRecursive leaves when nothing else runs in between
AloneTrace(g, address, currentDepth, max, dir) ==
  IF DepthExhausted(currentDepth, max) \/ NodesHas(g.nodes, address) THEN g
  ELSE LET g1 == [g EXCEPT !.nodes = MapSet(@, NewNode(address, currentDepth))] IN
       IF ~FetchMayReturn(address) THEN g1
       ELSE AloneTraceLoop(g1, address, currentDepth, max, dir,
                           Slice(LedgerList(address), config.maxTransactionsPerAddress))

AloneTraceLoop(g, address, currentDepth, max, dir, txs) ==
  IF txs = <<>> THEN g
  ELSE LET tx == Head(txs)
           e1 == [g EXCEPT !.edges = Append(@, NewEdge(tx))]
           g1 == IF FollowsOut(dir) /\ IsOutgoing(tx, address)
                 THEN IF MayRecurse(currentDepth, max)
                      THEN AloneTrace(e1, tx.to, currentDepth + 1, max, dir)
                      ELSE e1
                 ELSE g
           e2 == [g1 EXCEPT !.edges = Append(@, NewEdge(tx))]
           g2 == IF FollowsIn(dir) /\ IsIncoming(tx, address)
                 THEN IF MayRecurse(currentDepth, max)
                      THEN AloneTrace(e2, tx.from, currentDepth + 1, max, dir)
                      ELSE e2
                 ELSE g1
       IN  AloneTraceLoop(g2, address, currentDepth, max, dir, Tail(txs))

RECURSIVE AloneFind(_, _, _, _, _, _, _)
RECURSIVE AloneFindLoop(_, _, _, _, _, _, _, _)
\* the paths _findPaths leaves when nothing else runs in between
AloneFind(current, to, path, seen, found, depth, max) ==
  IF PathGuard(depth, max, found) THEN found
  ELSE IF AtTarget(current, to) THEN Append(found, path)
  ELSE IF ~FetchMayReturn(current) THEN found
  ELSE AloneFindLoop(current, to, path, seen \cup {ToLowerCase(current)}, found, depth,
                     max, Slice(LedgerList(current), config.maxTransactionsForPaths))

AloneFindLoop(current, to, path, seen, found, depth, max, txs) ==
  IF txs = <<>> THEN found
  ELSE LET tx == Head(txs)
           found1 == IF IsOutgoing(tx, current) /\ ~VisitedHas(seen, tx.to)
                     THEN AloneFind(tx.to, to, Append(path, tx.to), seen, found,
                                    depth + 1, max)
                     ELSE found
       IN  AloneFindLoop(current, to, path, seen, found1, depth, max, Tail(txs))

\* what the call with these locals returns when it runs alone
AloneResult(locals) ==
  IF locals.call.op = "traceFromAddress"
  THEN LET address == locals.call.args[1] IN
       [kind |-> "graph"] @@
         FormatGraph(AloneTrace([nodes |-> <<>>, edges |-> <<>>, startAddress |-> address],
                                address, 0, locals.maxDepth, locals.direction))
  ELSE LET found == AloneFind(locals.call.args[1], locals.call.args[2],
                              <<locals.call.args[1]>>, {}, <<>>, 0, PathMaxDepth) IN
       [kind |-> "paths", from |-> locals.call.args[1], to |-> locals.call.args[2],
        paths |-> found, pathCount |-> Len(found)]

\* C17: two traversal calls (traceFromAddress and/or tracePath) on one tracer,
\* interleaved at their fetch suspension points, each return exactly what the
\* call returns alone against the same deterministic ledger.
C17_Isolated ==
  /\ status = "returned" => result = AloneResult(Locals)
  /\ parked.locals.status = "returned" => parked.locals.result = AloneResult(parked.locals)

\* a tracePath and another traversal, switched while both were in flight, have
\* both returned; the path search found a path through b
C17_Witness ==
  /\ status = "returned" /\ parked.locals.status = "returned"
  /\ parked.interleaved
  /\ result.kind = "paths"
  /\ \E k \in 1..Len(result.paths) : Len(result.paths[k]) = 3

---------------------------------------------------------------------------
(* More properties of the Path Finder (checked under SpecPath) *)

\* a record sent by the address
SentBy(tx, address) == tx.from # NoAddr /\ CaseEqual(tx.from, address)

RECURSIVE OutgoingOf(_, _)
\* the records of a list that are outgoing from an address, in the list's order
OutgoingOf(transactions, address) ==
  IF transactions = <<>> THEN <<>>
  ELSE IF SentBy(Head(transactions), address)
       THEN <<Head(transactions)>> \o OutgoingOf(Tail(transactions), address)
       ELSE OutgoingOf(Tail(transactions), address)

\* the step in which a fetch of the path search resolves
FetchResolves ==
  /\ Searching /\ stack # <<>> /\ Top.pc = "await"
  /\ Len(stack') = Len(stack) /\ stack'[Len(stack')].pc = "loop"

\* the step in which the loop of the path search recurses into a record
LoopRecurses ==
  /\ Searching /\ stack # <<>> /\ Top.pc = "loop"
  /\ Len(stack') = Len(stack) + 1

C18_Step ==
  /\ FetchResolves =>
       LET frame == stack'[Len(stack')] IN
       OutgoingOf(frame.txs, frame.address)
         = Slice(OutgoingOf(frame.transactions, frame.address),
                 config.maxTransactionsForPaths)
  /\ LoopRecurses => SentBy(Head(Top.txs), Top.address)

\* C18: the path search follows only outgoing records, and the records it takes
\* from a fetched list are the first cap outgoing ones in source order: the cap
\* counts outgoing records only, whatever precedes them in the list.
C18_CapCountsOutgoing == [][C18_Step]_vars

C19_Step ==
  (Searching /\ nFetch' > nFetch) =>
    /\ Len(paths) < MaxPaths
    /\ Top.depth < maxDepth

\* C19: in a path search no fetch is issued once the number of paths found has
\* reached 10, for the rest of the search, and none for an address reached at
\* depth >= maxDepth.
C19_NoFetchPastGuard == [][C19_Step]_vars

\* with 10 paths found, a call arrives at an address that is not the target
C19_Witness ==
  /\ status = "pathing" /\ stack # <<>>
  /\ Top.pc = "enter"
  /\ ~AtTarget(Top.address, target)
  /\ Top.depth < maxDepth
  /\ Len(paths) = MaxPaths

---------------------------------------------------------------------------
(* More properties of the Graph Builder (checked under SpecTrace) *)

C20_Step ==
  status = "tracing" =>
    /\ Len(graph'.nodes) >= Len(graph.nodes)
    /\ \A i \in 1..Len(graph.nodes) : graph'.nodes[i] = graph.nodes[i]
    /\ \A j \in (Len(graph.nodes) + 1)..Len(graph'.nodes) :
         \A i \in 1..Len(graph.nodes) :
           graph'.nodes[j].address # graph.nodes[i].address

\* C20: in traceFromAddress the depth and type of a node are fixed when it is
\* inserted: no later step changes or re-inserts a node, also not when its
\* address is reached again at a smaller depth.
C20_NodesFixed == [][C20_Step]_vars

\* a call arrives at an address that is a node already, at a depth smaller than
\* the one the node records
C20_Witness ==
  /\ status = "tracing" /\ stack # <<>>
  /\ Top.pc = "enter"
  /\ \E i \in 1..Len(graph.nodes) :
       /\ graph.nodes[i].address = Top.address
       /\ graph.nodes[i].depth > Top.depth

---------------------------------------------------------------------------
(* The revisit set of the Path Finder (checked under SpecPath) *)

\* the case-folded addresses of a path without its last element
FoldedPrefix(path) == {ToLowerCase(path[i]) : i \in 1..(Len(path) - 1)}

\* C21: at the entry of every _findPaths call the revisit set is the set of the
\* case-folded addresses of the accumulated path without its last element, and
\* when the whole search has returned (also after fetch failures and after the
\* path cap was hit) the revisit set is empty.
C21_Backtracking ==
  /\ (Searching /\ stack # <<>> /\ Top.pc = "enter") => visited = FoldedPrefix(Top.path)
  /\ (Searching /\ stack = <<>>) => visited = {}
  /\ PathsReturned => visited = {}

\* a search has returned after the fetch of an address two steps from the start
\* failed, having recorded a path of three addresses
C21_Witness ==
  /\ PathsReturned
  /\ \E k \in 1..Len(result.paths) : Len(result.paths[k]) = 3
  /\ \E f \in failed : ~CaseEqual(f, result.from)
  /\ visited = {}

---------------------------------------------------------------------------
(* The endpoints of the edges (checked under SpecTrace) *)

\* C22: in every returned graph each edge has an endpoint that case-equals the
\* address of the node it was appended from, and when that node's depth d has
\* d + 1 < maxDepth the other endpoint (the receiver of an edge followed
\* outwards, the sender of one followed inwards) is a node too; for an edge
\* appended at depth maxDepth - 1 nothing is required of the far endpoint.
C22_EdgeEndpoints ==
  GraphReturned =>
    \A i \in 1..Len(result.edges) :
      LET e == result.edges[i]
          near == disc[i].address IN
      /\ NodesHas(result.nodes, near)
      /\ CaseEqual(e.from, near) \/ CaseEqual(e.to, near)
      /\ disc[i].depth + 1 < maxDepth =>
           /\ (direction \in {"out", "both"} /\ CaseEqual(e.from, near))
                => NodesHas(result.nodes, e.to)
           /\ (direction \in {"in", "both"} /\ CaseEqual(e.to, near))
                => NodesHas(result.nodes, e.from)

\* a graph with an edge appended at depth 0 whose far endpoint is a node, and an
\* edge appended at depth maxDepth - 1 whose far endpoint is no node
C22_Witness ==
  /\ GraphReturned
  /\ \E i, j \in 1..Len(result.edges) :
       /\ disc[i].depth = 0 /\ disc[i].depth + 1 < maxDepth
       /\ NodesHas(result.nodes, result.edges[i].to)
       /\ result.edges[i].to # result.startAddress
       /\ disc[j].depth = maxDepth - 1
       /\ CaseEqual(result.edges[j].from, disc[j].address)
       /\ ~NodesHas(result.nodes, result.edges[j].to)

=============================================================================
